---------------------------- MODULE Spec2Model ----------------------------
(***************************************************************************)
(* A model of tools/AppInfraCdkV1.Tools.Common/scripts/glue/               *)
(* healthlake_etl.py: the Glue ETL script that tags HealthLake FHIR        *)
(* exports with a tenant identifier, writes them partitioned, and          *)
(* reconciles the Glue catalog.                                            *)
(*                                                                         *)
(* Four entry points are modelled, each with its own specification:        *)
(*   Spec           main(): one run of the script over the twelve types    *)
(*   FairSpec       Spec with the progress of its one sequential thread    *)
(*   SpecJob        process_resource_type() called directly, once          *)
(*   SpecReconcile  create_glue_table() called directly, several times     *)
(*   SpecExtract    extract_tenant_id() called directly on one argument    *)
(* The actions are shared; `entry` records which entry point was called.   *)
(*                                                                         *)
(* Spark, S3 and the Glue catalog are external collaborators: what they    *)
(* return (a dataset, an empty dataset, an exception; Created,             *)
(* AlreadyExists, another error) is chosen nondeterministically, and every *)
(* request the script sends them is recorded in writeLog / catalogLog.     *)
(* The two logs hold the requests of the current process_resource_type     *)
(* invocation (they are cleared when the next one starts); when            *)
(* create_glue_table is the entry point catalogLog holds every request.    *)
(* `store` holds the rows under the output path of the current job.        *)
(***************************************************************************)
EXTENDS Integers, Sequences, FiniteSets, TLC

VARIABLES
    entry,                  \* the entry point that was called
    pc,                     \* position of control
    exc,                    \* the exception in flight, or NoExc
    enable_multi_tenant,    \* line 41
    tenant_partition_key,   \* line 40
    timestamp,              \* line 43
    idx,                    \* main(): index of the loop of line 213 (0 before it)
    status,                 \* per resource type: the stage of its job
    attempts,               \* per resource type: invocations of process_resource_type
    df,                     \* process_resource_type: df (line 82)
    df_with_metadata,       \* process_resource_type: df_with_metadata (line 99)
    extractInvoked,         \* whether the current job has invoked extract_tenant_id
    writeLog,               \* write requests of the current job
    store,                  \* the rows stored under the output path of the current job
    table_name,             \* create_glue_table: its arguments
    location,
    schema,
    reconciles,             \* invocations of create_glue_table recorded in catalogLog
    catalogLog,             \* boto3 / Glue catalog requests, with their results
    security_labels,        \* extract_tenant_id called directly: its argument
    result                  \* extract_tenant_id called directly: its outcome

vars == << entry, pc, exc, enable_multi_tenant, tenant_partition_key, timestamp,
           idx, status, attempts, df, df_with_metadata, extractInvoked, writeLog,
           store, table_name, location, schema, reconciles, catalogLog,
           security_labels, result >>

---------------------------------------------------------------------------
(* Bounds of the model.                                                    *)

\* longest sequence of security labels given to extract_tenant_id directly
MaxLabels == 3
\* number of direct create_glue_table calls in SpecReconcile
MaxReconciles == 2
\* most documents in an export given to process_resource_type directly
MaxRows == 2

---------------------------------------------------------------------------
(* Python values, as far as extract_tenant_id can tell them apart.         *)

TENANT_CLAIM_SYSTEM == "http://thirdopinion.io/identity/claims/tenant"

\* a system that is not the tenant claim system but begins like it
NearMissSystem == "http://thirdopinion.io/identity/claims/tenant/"

\* dict.get(key) of a key the mapping does not hold; a value that is None
NoKey == "<no such key>"
PyNone == "<None>"

\* One element met while iterating the argument.  kind "dict" is a Python
\* dict (a label object); "row" is a pyspark Row (what a Python UDF receives
\* for a struct); "str" is any other object (a string, a character, a key).
Element(kind, system, code) == [kind |-> kind, system |-> system, code |-> code]

NotALabel == Element("str", NoKey, NoKey)

DictLabels ==
    { Element("dict", s, c) :
        s \in {TENANT_CLAIM_SYSTEM, NearMissSystem, NoKey},
        c \in {"G1", "G2", PyNone, NoKey} }

RowLabels ==
    { Element("row", TENANT_CLAIM_SYSTEM, c) : c \in {"G1", PyNone} }

Elements == DictLabels \cup RowLabels \cup {NotALabel}

\* the elements of the values that are given instead of a list
ViewElements ==
    { Element("dict", TENANT_CLAIM_SYSTEM, "G1"),
      Element("dict", NearMissSystem, "G2"),
      NotALabel }

\* A Python value given as security_labels.  kind: "none" (None), "list",
\* "str" (iterating yields characters), "dict" (a mapping given instead of a
\* list: iterating yields its keys), "int" (not iterable; val 0 is falsy),
\* "view" (the values view of a dict: no list, iterating yields the values),
\* "ndarray" (a numpy array of two or more elements: its truth test raises
\* ValueError).
PyValue(kind, items, val) == [kind |-> kind, items |-> items, val |-> val]

None == PyValue("none", << >>, 0)
PyList(items) == PyValue("list", items, 0)

SeqsUpTo(S, n) == UNION { [1..k -> S] : k \in 0..n }

PyValues ==
    {None}
    \cup { PyList(s) : s \in SeqsUpTo(Elements, MaxLabels) }
    \cup { PyValue("str", s, 0) : s \in SeqsUpTo({NotALabel}, 2) }
    \cup { PyValue("dict", s, 0) : s \in SeqsUpTo({NotALabel}, 2) }
    \cup { PyValue("int", << >>, v) : v \in {0, 5} }
    \cup { PyValue("view", s, 0) : s \in SeqsUpTo(ViewElements, 2) }
    \cup { PyValue("ndarray", s, 0) : s \in [1..2 -> ViewElements] }

\* the outcome of an evaluation: a value, or an exception
Return(v) == [kind |-> "return", value |-> v]
Raise(e) == [kind |-> "raise", value |-> e]

\* bool(v) where the truth test returns: None, 0 and empty containers are
\* falsy
Truthy(v) ==
    CASE v.kind = "none" -> FALSE
      [] v.kind = "int"  -> v.val # 0
      [] OTHER           -> Len(v.items) > 0

\* the truth test of `not security_labels` (line 59): it raises ValueError
\* for an array of two or more elements, and returns bool(v) otherwise
TruthTest(v) ==
    IF v.kind = "ndarray" /\ Len(v.items) >= 2 THEN Raise("ValueError")
    ELSE Return(Truthy(v))

\* whether `for label in v` can start; otherwise it raises TypeError
Iterable(v) == v.kind \in {"list", "str", "dict", "view", "ndarray"}

\* isinstance(label, dict)
IsInstanceDict(label) == label.kind = "dict"

\* label.get('system'): None when the key is absent
GetSystem(label) == IF label.system = NoKey THEN PyNone ELSE label.system

\* label.get('code', 'unknown')
GetCode(label) == IF label.code = NoKey THEN "unknown" ELSE label.code

---------------------------------------------------------------------------
(* extract_tenant_id (lines 48-69).  An outcome is a returned value, a     *)
(* raised exception, or control falling out of the loop.                   *)

FallThrough == [kind |-> "fallthrough", value |-> PyNone]

\* a faulty variant: any dict with a system key matches
LabelMatches_AnySystem(label) ==
    IsInstanceDict(label) /\ GetSystem(label) # PyNone

\* line 64
LabelMatches(label) ==
    IsInstanceDict(label) /\ GetSystem(label) = TENANT_CLAIM_SYSTEM

RECURSIVE ScanLabels(_)
\* lines 63-65: the loop over the elements
ScanLabels(s) ==
    IF s = << >> THEN FallThrough
    ELSE IF LabelMatches(Head(s)) THEN Return(GetCode(Head(s)))
    ELSE ScanLabels(Tail(s))

\* lines 63-65 with the iteration protocol: a non-iterable raises TypeError
TryBody(v) == IF Iterable(v) THEN ScanLabels(v.items) ELSE Raise("TypeError")

\* lines 59-69: the truth test of line 59 is outside the try statement, an
\* exception it raises leaves the function; one raised in the try body is
\* swallowed by the handler of line 66
ExtractTenantId(v) ==
    IF TruthTest(v).kind = "raise" THEN TruthTest(v)
    ELSE IF ~TruthTest(v).value THEN Return("unknown")
    ELSE IF TryBody(v).kind = "return" THEN TryBody(v)
    ELSE Return("unknown")

---------------------------------------------------------------------------
(* Run configuration and the fixed names of the script.                    *)

\* line 39: args['CURATED_BUCKET']
curated_bucket == "curated"

\* line 125
database_name == "healthlake_analytics"

\* a faulty variant: Observation before Patient
resource_types_Swapped ==
    << "Observation", "Patient", "Condition", "MedicationRequest", "Procedure",
       "DiagnosticReport", "Encounter", "AllergyIntolerance", "Immunization",
       "CarePlan", "Goal", "MedicationStatement" >>

\* lines 197-210
resource_types ==
    << "Patient", "Observation", "Condition", "MedicationRequest", "Procedure",
       "DiagnosticReport", "Encounter", "AllergyIntolerance", "Immunization",
       "CarePlan", "Goal", "MedicationStatement" >>

NumTypes == Len(resource_types)

Types == { resource_types[i] : i \in 1..NumTypes }

\* str.lower() on the strings the script lower-cases (lines 104, 114, 133)
Lower(s) ==
    CASE s = "Patient"             -> "patient"
      [] s = "Observation"         -> "observation"
      [] s = "Condition"           -> "condition"
      [] s = "MedicationRequest"   -> "medicationrequest"
      [] s = "Procedure"           -> "procedure"
      [] s = "DiagnosticReport"    -> "diagnosticreport"
      [] s = "Encounter"           -> "encounter"
      [] s = "AllergyIntolerance"  -> "allergyintolerance"
      [] s = "Immunization"        -> "immunization"
      [] s = "CarePlan"            -> "careplan"
      [] s = "Goal"                -> "goal"
      [] s = "MedicationStatement" -> "medicationstatement"
      [] s = "StringType"          -> "stringtype"
      [] s = "StructType"          -> "structtype"
      [] OTHER                     -> s

\* a faulty variant: the base path of line 215, the resource type left out
OutputPath_Base(resource_type) == "s3://" \o curated_bucket \o "/"

\* line 104: f"s3://{curated_bucket}/{resource_type.lower()}/"
OutputPath(resource_type) == "s3://" \o curated_bucket \o "/" \o Lower(resource_type) \o "/"

\* values of args['TENANT_PARTITION_KEY']: a fresh column name, and the name
\* of a column the exported documents already have
TenantKeyNames == {"tenant_id", "id"}

\* value of args['TIMESTAMP']
ExportTimestamp == "2024-01-01T00:00Z"

\* line 101: datetime.now().isoformat(), one value per invocation
ProcessingDate == "<now>"

---------------------------------------------------------------------------
(* Datasets: an ordered schema and a sequence of rows (column -> value).   *)

Field(name, dataType) == [name |-> name, dataType |-> dataType]

\* udf: the columns of the plan that are computed by extract_tenant_id_udf
Dataset(columns, rows) ==
    [bound |-> TRUE, columns |-> columns, rows |-> rows, udf |-> {}]

\* a local variable not yet assigned
Unassigned == [bound |-> FALSE, columns |-> << >>, rows |-> << >>, udf |-> {}]

\* Spark's value of meta.security: null, or an array of structs
SparkNull == [isNull |-> TRUE, items |-> << >>]
SparkArray(items) == [isNull |-> FALSE, items |-> items]
Struct(system, code) == [system |-> system, code |-> code]

\* a faulty variant: the structs reach the UDF as dicts
ToPython_AsDict(x) ==
    IF x.isNull THEN None
    ELSE PyList([i \in 1..Len(x.items) |->
                    Element("dict", x.items[i].system, x.items[i].code)])

\* what a Python UDF receives for a column value of type array<struct>:
\* None for null, else a list of pyspark Row objects (line 92)
ToPython(x) ==
    IF x.isNull THEN None
    ELSE PyList([i \in 1..Len(x.items) |->
                    Element("row", x.items[i].system, x.items[i].code)])

\* spark.read.json of files that hold no document
EmptyDataset == Dataset(<< >>, << >>)

\* two documents: one labelled with tenant T1, one whose meta has no security
SampleExport ==
    Dataset(<< Field("id", "StringType"), Field("meta", "StructType") >>,
            << [id |-> "a",
                meta |-> SparkArray(<< Struct(TENANT_CLAIM_SYSTEM, "T1") >>)],
               [id |-> "b", meta |-> SparkNull] >>)

\* documents that carry no meta element at all
NoMetaExport ==
    Dataset(<< Field("id", "StringType") >>, << [id |-> "c"] >>)

Datasets == {EmptyDataset, SampleExport, NoMetaExport}

\* the values of meta.security that the documents of an export can hold:
\* no security element (null when other documents have one), an empty one, a label of the tenant claim system, one
\* whose code is missing or null, one without a system, a tenant label
\* behind a label of another system
SecurityValues ==
    { SparkNull,
      SparkArray(<< >>),
      SparkArray(<< Struct(TENANT_CLAIM_SYSTEM, "T1") >>),
      SparkArray(<< Struct(TENANT_CLAIM_SYSTEM, PyNone) >>),
      SparkArray(<< Struct(PyNone, "T1") >>),
      SparkArray(<< Struct(NearMissSystem, "T2"), Struct(TENANT_CLAIM_SYSTEM, "T1") >>) }

\* the document ids of an export, by position
DocumentIds == [i \in 1..MaxRows |-> IF i = 1 THEN "a" ELSE IF i = 2 THEN "b" ELSE "c"]

\* spark.read.json of up to MaxRows documents with a meta element
ExportOf(securities) ==
    Dataset(<< Field("id", "StringType"), Field("meta", "StructType") >>,
            [i \in 1..Len(securities) |->
                [id |-> DocumentIds[i], meta |-> securities[i]]])

JobDatasets ==
    {EmptyDataset, NoMetaExport} \cup
    { ExportOf(s) : s \in SeqsUpTo(SecurityValues, MaxRows) \ {<< >>} }

\* what spark.read.json (line 82) can yield: main() is run on the three
\* sample exports, process_resource_type called directly on every export
ReadableDatasets == IF entry = "main" THEN Datasets ELSE JobDatasets

ColumnNames(ds) == { ds.columns[i].name : i \in 1..Len(ds.columns) }

\* Dataset.withColumn(name, values): replaces the column of that name in
\* place, or appends it; values[i] is the value of row i
WithColumn(ds, name, values) ==
    [ Dataset(
        IF name \in ColumnNames(ds)
        THEN [i \in 1..Len(ds.columns) |->
                IF ds.columns[i].name = name THEN Field(name, "StringType")
                ELSE ds.columns[i]]
        ELSE Append(ds.columns, Field(name, "StringType")),
        [i \in 1..Len(ds.rows) |->
            [c \in (DOMAIN ds.rows[i]) \cup {name} |->
                IF c = name THEN values[i] ELSE ds.rows[i][c]]])
      EXCEPT !.udf = ds.udf \ {name} ]

\* lines 90-93: withColumn(name, extract_tenant_id_udf(...)): the column is
\* computed by the UDF when the plan is executed; values[i] is what it yields
WithUdfColumn(ds, name, values) ==
    [ WithColumn(ds, name, values) EXCEPT !.udf = ds.udf \cup {name} ]

\* lit(v): the same value for every row
Lit(ds, v) == [i \in 1..Len(ds.rows) |-> v]

\* line 92: col("meta.security") resolves only if the schema inferred from
\* all documents of the export has a meta with a field security, that is if
\* some document has a security element (SparkNull is what a document
\* without one holds in such an export)
ResolvesMetaSecurity(ds) ==
    /\ "meta" \in ColumnNames(ds)
    /\ \E i \in 1..Len(ds.rows) : ~ds.rows[i]["meta"].isNull

\* lines 90-93: the UDF applied to meta.security of every row
TenantColumn(ds) ==
    [i \in 1..Len(ds.rows) |-> ExtractTenantId(ToPython(ds.rows[i]["meta"])).value]

\* lines 89-101
Tagged(ds, multi, key, ts) ==
    WithColumn(
        WithColumn(
            IF multi THEN WithUdfColumn(ds, key, TenantColumn(ds))
            ELSE WithColumn(ds, key, Lit(ds, "default")),
            "_export_timestamp", Lit(ds, ts)),
        "_processing_date", Lit(ds, ProcessingDate))

---------------------------------------------------------------------------
(* Requests to the collaborators.                                          *)

NoExc == "none"

\* a faulty variant: save mode "overwrite"
WriteRequest_Overwrite(ds, path, key, ok) ==
    [ path        |-> path,
      mode        |-> "overwrite",
      partitionBy |-> << key, "_export_timestamp" >>,
      rows        |-> ds.rows,
      ok          |-> ok ]

\* lines 106-109: DataFrameWriter.mode("append").partitionBy(...).parquet(path)
WriteRequest(ds, path, key, ok) ==
    [ path        |-> path,
      mode        |-> "append",
      partitionBy |-> << key, "_export_timestamp" >>,
      rows        |-> ds.rows,
      ok          |-> ok ]

\* the number of rows of a write request that reached the store: all of them
\* if the write succeeded, any number of them if it raised
WrittenBefore(req) == IF req.ok THEN {Len(req.rows)} ELSE 0..Len(req.rows)

\* whether extract_tenant_id has been invoked when the write of plan ds has
\* put n rows in the store: never if no column of the plan is computed by
\* the UDF; otherwise it was invoked for every row stored, and it may or may
\* not have been when the write raised before it stored a row
UdfInvoked(ds, n) ==
    IF ds.udf = {} THEN {FALSE}
    ELSE IF n > 0 THEN {TRUE}
    ELSE BOOLEAN

\* DataFrameWriter.parquet under the save mode of the request (line 107):
\* "append" adds the rows to those stored under the path, "overwrite"
\* replaces what is stored there
ApplyWrite(stored, req, n) ==
    IF req.mode = "append" THEN stored \o SubSeq(req.rows, 1, n)
    ELSE SubSeq(req.rows, 1, n)

\* a faulty variant: every field of the schema becomes a column
GlueSchema_AllFields(sch, key) ==
    [i \in 1..Len(sch) |-> Field(sch[i].name, Lower(sch[i].dataType))]

\* lines 128-134: the columns of the table, the partition columns left out
GlueSchema(sch, key) ==
    LET keep == SelectSeq(sch, LAMBDA f : f.name \notin {key, "_export_timestamp"})
    IN  [i \in 1..Len(keep) |-> Field(keep[i].name, Lower(keep[i].dataType))]

\* a faulty variant: the export timestamp first
PartitionKeys_Swapped(key) ==
    << Field("_export_timestamp", "string"), Field(key, "string") >>

\* lines 137-140
PartitionKeys(key) ==
    << Field(key, "string"), Field("_export_timestamp", "string") >>

\* the keys of a TableInput, nested keys written with a dot
StorageFormatKeys ==
    { "StorageDescriptor.InputFormat", "StorageDescriptor.OutputFormat",
      "StorageDescriptor.SerdeInfo", "StorageDescriptor.StoredAsSubDirectories",
      "TableType", "Parameters" }

TableInput(keys, name, columns, loc, pkeys) ==
    [ keys |-> keys, Name |-> name, Columns |-> columns, Location |-> loc,
      PartitionKeys |-> pkeys ]

\* lines 148-167
CreateTableInput(name, columns, loc, pkeys) ==
    TableInput({"Name", "StorageDescriptor.Columns", "StorageDescriptor.Location",
                "PartitionKeys"} \cup StorageFormatKeys,
               name, columns, loc, pkeys)

\* a faulty variant: the update resends the whole description
UpdateTableInput_Full(name, columns, loc, pkeys) ==
    CreateTableInput(name, columns, loc, pkeys)

\* lines 174-181
UpdateTableInput(name, columns, loc, pkeys) ==
    TableInput({"Name", "StorageDescriptor.Columns", "StorageDescriptor.Location",
                "PartitionKeys"},
               name, columns, loc, pkeys)

NoInput == TableInput({}, "", << >>, "", << >>)

\* one request of create_glue_table number rid: boto3.client('glue') (op
\* "client"), glue_client.create_table, glue_client.update_table
CatalogCall(rid, op, input, res) ==
    [ rid |-> rid, op |-> op, database |-> database_name, input |-> input,
      result |-> res ]

---------------------------------------------------------------------------
(* State that an entry point does not use keeps these values.              *)

NoResult == [kind |-> "none", value |-> PyNone]

Stages == {"Pending", "Reading", "Tagging", "Writing", "Syncing", "Done", "Failed"}

config == << enable_multi_tenant, tenant_partition_key, timestamp >>
jobLocals == << df, df_with_metadata, extractInvoked, writeLog, store >>
cgtArgs == << table_name, location, schema >>
extractVars == << security_labels, result >>
mainVars == << idx, status, attempts >>

\* the resource type of the current iteration of line 213
CurType == resource_types[idx]

SetStatus(stage) == status' = [status EXCEPT ![CurType] = stage]

---------------------------------------------------------------------------
(* main() and process_resource_type().                                     *)

\* lines 213-218 and 78: the next iteration calls process_resource_type
StartJob ==
    /\ entry = "main" /\ pc = "loop" /\ idx < NumTypes
    /\ idx' = idx + 1
    /\ attempts' = [attempts EXCEPT ![resource_types[idx + 1]] = @ + 1]
    /\ status' = [status EXCEPT ![resource_types[idx + 1]] = "Reading"]
    /\ pc' = "read"
    /\ df' = Unassigned /\ df_with_metadata' = Unassigned
    /\ extractInvoked' = FALSE /\ writeLog' = << >> /\ store' = << >>
    /\ table_name' = "" /\ location' = "" /\ schema' = << >>
    /\ reconciles' = 0 /\ catalogLog' = << >>
    /\ UNCHANGED << entry, exc, config, extractVars >>

\* the resource types process_resource_type is called for directly
JobTypes == {"Patient", "MedicationRequest"}

\* an export timestamp of an earlier run
EarlierTimestamp == "2023-12-31T00:00Z"

\* line 101: the datetime.now() of an earlier invocation
EarlierProcessingDate == "<earlier>"

\* the rows an earlier invocation stored for the sample export under export
\* timestamp ts: tagged in the same way, with the processing date of that
\* invocation
EarlierRows(ts) ==
    LET tagged == Tagged(SampleExport, enable_multi_tenant, tenant_partition_key, ts)
    IN  WithColumn(tagged, "_processing_date",
                   Lit(tagged, EarlierProcessingDate)).rows

\* what earlier runs of the script, under the same configuration, left
\* under an output path: nothing, the sample export of an earlier
\* timestamp, or the sample export of the same timestamp
PriorStores ==
    { << >> } \cup { EarlierRows(ts) : ts \in {EarlierTimestamp, timestamp} }

\* line 74: process_resource_type(resource_type, output_base_path) is called
CallJob ==
    /\ entry = "process_resource_type" /\ pc = "harness"
    /\ \E i \in { j \in 1..NumTypes : resource_types[j] \in JobTypes } :
        /\ idx' = i
        /\ attempts' = [attempts EXCEPT ![resource_types[i]] = @ + 1]
        /\ status' = [status EXCEPT ![resource_types[i]] = "Reading"]
    /\ \E prior \in PriorStores : store' = prior
    /\ pc' = "read"
    /\ UNCHANGED << entry, exc, config, df, df_with_metadata, extractInvoked,
                    writeLog, cgtArgs, reconciles, catalogLog, extractVars >>

\* a faulty variant: no test of df.count()
Read_NoEmptyCheck ==
    /\ pc = "read"
    /\ \/ /\ exc' = "read" /\ pc' = "prt_except"
          /\ UNCHANGED << df, status >>
       \/ /\ \E ds \in ReadableDatasets : df' = ds
          /\ SetStatus("Tagging") /\ pc' = "tag"
          /\ UNCHANGED exc
    /\ UNCHANGED << entry, config, idx, attempts, df_with_metadata, extractInvoked,
                    writeLog, store, cgtArgs, reconciles, catalogLog, extractVars >>

\* lines 82-86: spark.read.json raises; or it yields a dataset and
\* df.count() raises; or df.count() returns, and 0 makes
\* process_resource_type return
Read ==
    /\ pc = "read"
    /\ \/ /\ exc' = "read" /\ pc' = "prt_except"
          /\ UNCHANGED << df, status >>
       \/ /\ \E ds \in ReadableDatasets : df' = ds
          /\ exc' = "count" /\ pc' = "prt_except"
          /\ UNCHANGED status
       \/ /\ \E ds \in ReadableDatasets : df' = ds
          /\ IF Len(df'.rows) = 0
             THEN SetStatus("Done") /\ pc' = "loop"
             ELSE SetStatus("Tagging") /\ pc' = "tag"
          /\ UNCHANGED exc
    /\ UNCHANGED << entry, config, idx, attempts, df_with_metadata, extractInvoked,
                    writeLog, store, cgtArgs, reconciles, catalogLog, extractVars >>

\* lines 88-101: the tenant column and the processing metadata are added to
\* the plan; df_with_metadata holds what the plan yields, nothing is
\* evaluated yet and extract_tenant_id is not invoked
Tag ==
    /\ pc = "tag"
    /\ IF enable_multi_tenant /\ ~ResolvesMetaSecurity(df)
       THEN /\ exc' = "tag" /\ pc' = "prt_except"
            /\ UNCHANGED << df_with_metadata, status >>
       ELSE /\ df_with_metadata' =
                  Tagged(df, enable_multi_tenant, tenant_partition_key, timestamp)
            /\ SetStatus("Writing") /\ pc' = "write"
            /\ UNCHANGED exc
    /\ UNCHANGED << entry, config, idx, attempts, df, extractInvoked, writeLog,
                    store, cgtArgs, reconciles, catalogLog, extractVars >>

\* a faulty variant: create_glue_table is called whether the write raised or not
Write_SyncAnyway ==
    /\ pc = "write"
    /\ \E ok \in BOOLEAN :
        /\ writeLog' = Append(writeLog,
               WriteRequest(df_with_metadata, OutputPath(CurType),
                            tenant_partition_key, ok))
        /\ \E n \in WrittenBefore(writeLog'[Len(writeLog')]) :
               /\ store' = ApplyWrite(store, writeLog'[Len(writeLog')], n)
               /\ extractInvoked' \in UdfInvoked(df_with_metadata, n)
        /\ SetStatus("Syncing") /\ pc' = "cgt"
        /\ table_name' = Lower(CurType)
        /\ location' = OutputPath(CurType)
        /\ schema' = df_with_metadata.columns
        /\ UNCHANGED exc
    /\ UNCHANGED << entry, config, idx, attempts, df, df_with_metadata,
                    reconciles, catalogLog, extractVars >>

\* lines 103-114: the write executes the plan (Spark invokes the UDF of line
\* 92 on the rows it evaluates) and raises, or succeeds and
\* create_glue_table is called; the store holds what the write put under
\* the output path
Write ==
    /\ pc = "write"
    /\ \E ok \in BOOLEAN :
        /\ writeLog' = Append(writeLog,
               WriteRequest(df_with_metadata, OutputPath(CurType),
                            tenant_partition_key, ok))
        /\ \E n \in WrittenBefore(writeLog'[Len(writeLog')]) :
               /\ store' = ApplyWrite(store, writeLog'[Len(writeLog')], n)
               /\ extractInvoked' \in UdfInvoked(df_with_metadata, n)
        /\ IF ok
           THEN /\ SetStatus("Syncing") /\ pc' = "cgt"
                /\ table_name' = Lower(CurType)
                /\ location' = OutputPath(CurType)
                /\ schema' = df_with_metadata.columns
                /\ UNCHANGED exc
           ELSE /\ exc' = "write" /\ pc' = "prt_except"
                /\ UNCHANGED << status, cgtArgs >>
    /\ UNCHANGED << entry, config, idx, attempts, df, df_with_metadata,
                    reconciles, catalogLog, extractVars >>

\* the end of the try block of line 80: process_resource_type returns
ProcessReturn ==
    /\ pc = "prt_return"
    /\ SetStatus("Done") /\ pc' = "loop"
    /\ UNCHANGED << entry, exc, config, idx, attempts, jobLocals, cgtArgs,
                    reconciles, catalogLog, extractVars >>

\* a faulty variant: the handler logs and does not raise
ProcessExcept_Swallow ==
    /\ pc = "prt_except"
    /\ exc' = NoExc /\ pc' = "prt_return"
    /\ UNCHANGED << entry, config, mainVars, jobLocals, cgtArgs,
                    reconciles, catalogLog, extractVars >>

\* lines 116-118: the handler of process_resource_type logs and raises again
ProcessExcept ==
    /\ pc = "prt_except"
    /\ pc' = "main_except"
    /\ UNCHANGED << entry, exc, config, mainVars, jobLocals, cgtArgs,
                    reconciles, catalogLog, extractVars >>

\* a faulty variant: the handler leaves the loop (break for continue)
MainExcept_Break ==
    /\ pc = "main_except"
    /\ SetStatus("Failed") /\ exc' = NoExc /\ pc' = "loop"
    /\ idx' = NumTypes
    /\ UNCHANGED << entry, config, attempts, jobLocals, cgtArgs,
                    reconciles, catalogLog, extractVars >>

\* a faulty variant: main() has no handler, the exception leaves it
MainExcept_Propagate ==
    /\ pc = "main_except"
    /\ status' = [status EXCEPT ![CurType] = "Failed"] /\ pc' = "crashed"
    /\ UNCHANGED << entry, exc, config, idx, attempts, jobLocals, cgtArgs,
                    reconciles, catalogLog, extractVars >>

\* a faulty variant: the handler calls process_resource_type again
MainExcept_Retry ==
    /\ pc = "main_except"
    /\ SetStatus("Reading") /\ exc' = NoExc /\ pc' = "read"
    /\ attempts' = [attempts EXCEPT ![CurType] = @ + 1]
    /\ UNCHANGED << entry, config, idx, jobLocals, cgtArgs,
                    reconciles, catalogLog, extractVars >>

\* lines 219-222: the handler of main() logs and continues with the next type
MainExcept ==
    /\ pc = "main_except"
    /\ SetStatus("Failed") /\ exc' = NoExc /\ pc' = "loop"
    /\ UNCHANGED << entry, config, idx, attempts, jobLocals, cgtArgs,
                    reconciles, catalogLog, extractVars >>

\* line 224: the loop is over, main() reports completion
Finish ==
    /\ entry = "main" /\ pc = "loop" /\ idx = NumTypes
    /\ pc' = "completed"
    /\ UNCHANGED << entry, exc, config, mainVars, jobLocals, cgtArgs,
                    reconciles, catalogLog, extractVars >>

---------------------------------------------------------------------------
(* create_glue_table().                                                    *)

\* where control goes when create_glue_table returns
AfterCgt == IF entry = "create_glue_table" THEN "harness" ELSE "prt_return"

LogCall(op, input, res) ==
    catalogLog' = Append(catalogLog, CatalogCall(reconciles, op, input, res))

\* lines 124-143: the description is derived and the Glue client obtained
CgtClient ==
    /\ pc = "cgt"
    /\ reconciles' = reconciles + 1
    /\ \E ok \in BOOLEAN :
        /\ catalogLog' = Append(catalogLog,
               CatalogCall(reconciles + 1, "client", NoInput,
                           IF ok THEN "ok" ELSE "error"))
        /\ pc' = IF ok THEN "create" ELSE "cgt_except"
        /\ exc' = IF ok THEN exc ELSE "client"
    /\ UNCHANGED << entry, config, mainVars, jobLocals, cgtArgs, extractVars >>

\* a faulty variant: the update is made whatever create_table answered
CgtCreate_AlwaysUpdate ==
    /\ pc = "create"
    /\ \E res \in {"Created", "AlreadyExists", "Error"} :
        /\ LogCall("create_table",
                   CreateTableInput(table_name, GlueSchema(schema, tenant_partition_key),
                                    location, PartitionKeys(tenant_partition_key)),
                   res)
        /\ pc' = "update"
        /\ UNCHANGED exc
    /\ UNCHANGED << entry, config, mainVars, jobLocals, cgtArgs, reconciles,
                    extractVars >>

\* a faulty variant: AlreadyExists is handled like any other error
CgtCreate_NoFallback ==
    /\ pc = "create"
    /\ \E res \in {"Created", "AlreadyExists", "Error"} :
        /\ LogCall("create_table",
                   CreateTableInput(table_name, GlueSchema(schema, tenant_partition_key),
                                    location, PartitionKeys(tenant_partition_key)),
                   res)
        /\ pc' = IF res = "Created" THEN AfterCgt ELSE "cgt_except"
        /\ exc' = IF res = "Created" THEN exc ELSE "create"
    /\ UNCHANGED << entry, config, mainVars, jobLocals, cgtArgs, reconciles,
                    extractVars >>

\* lines 145-171: create_table succeeds, reports AlreadyExists (the inner
\* handler takes over), or raises another error
CgtCreate ==
    /\ pc = "create"
    /\ \E res \in {"Created", "AlreadyExists", "Error"} :
        /\ LogCall("create_table",
                   CreateTableInput(table_name, GlueSchema(schema, tenant_partition_key),
                                    location, PartitionKeys(tenant_partition_key)),
                   res)
        /\ pc' = CASE res = "Created"       -> AfterCgt
                   [] res = "AlreadyExists" -> "update"
                   [] OTHER                 -> "cgt_except"
        /\ exc' = IF res = "Error" THEN "create" ELSE exc
    /\ UNCHANGED << entry, config, mainVars, jobLocals, cgtArgs, reconciles,
                    extractVars >>

\* a faulty variant: an error of update_table leaves create_glue_table
CgtUpdate_Escapes ==
    /\ pc = "update"
    /\ \E ok \in BOOLEAN :
        /\ LogCall("update_table",
                   UpdateTableInput(table_name, GlueSchema(schema, tenant_partition_key),
                                    location, PartitionKeys(tenant_partition_key)),
                   IF ok THEN "ok" ELSE "error")
        /\ pc' = IF ok THEN AfterCgt
                 ELSE IF entry = "create_glue_table" THEN "harness" ELSE "prt_except"
        /\ exc' = IF ok THEN exc ELSE "update"
    /\ UNCHANGED << entry, config, mainVars, jobLocals, cgtArgs, reconciles,
                    extractVars >>

\* lines 172-182: update_table succeeds or raises
CgtUpdate ==
    /\ pc = "update"
    /\ \E ok \in BOOLEAN :
        /\ LogCall("update_table",
                   UpdateTableInput(table_name, GlueSchema(schema, tenant_partition_key),
                                    location, PartitionKeys(tenant_partition_key)),
                   IF ok THEN "ok" ELSE "error")
        /\ pc' = IF ok THEN AfterCgt ELSE "cgt_except"
        /\ exc' = IF ok THEN exc ELSE "update"
    /\ UNCHANGED << entry, config, mainVars, jobLocals, cgtArgs, reconciles,
                    extractVars >>

\* a faulty variant: the outer handler raises again
CgtExcept_Reraise ==
    /\ pc = "cgt_except"
    /\ pc' = IF entry = "main" THEN "prt_except" ELSE "harness"
    /\ UNCHANGED << entry, exc, config, mainVars, jobLocals, cgtArgs, reconciles,
                    catalogLog, extractVars >>

\* lines 184-185: the outer handler logs the error and create_glue_table returns
CgtExcept ==
    /\ pc = "cgt_except"
    /\ exc' = NoExc /\ pc' = AfterCgt
    /\ UNCHANGED << entry, config, mainVars, jobLocals, cgtArgs, reconciles,
                    catalogLog, extractVars >>

\* create_glue_table called directly (line 120), for one of two tables
CallReconcile ==
    /\ entry = "create_glue_table" /\ pc = "harness"
    /\ reconciles < MaxReconciles
    /\ \E rt \in {"Patient", "Observation"}, ds \in {SampleExport, NoMetaExport} :
        /\ table_name' = Lower(rt)
        /\ location' = OutputPath(rt)
        /\ schema' = Tagged(ds, FALSE, tenant_partition_key, timestamp).columns
    /\ pc' = "cgt"
    /\ UNCHANGED << entry, exc, config, mainVars, jobLocals, reconciles,
                    catalogLog, extractVars >>

---------------------------------------------------------------------------
(* extract_tenant_id() called directly.                                    *)

CallExtract ==
    /\ entry = "extract_tenant_id" /\ pc = "call"
    /\ result' = ExtractTenantId(security_labels)
    /\ pc' = IF result'.kind = "raise" THEN "raised" ELSE "returned"
    /\ UNCHANGED << entry, exc, config, mainVars, jobLocals, cgtArgs, reconciles,
                    catalogLog, security_labels >>

---------------------------------------------------------------------------
(* The specifications.                                                     *)

Quiet ==
    /\ exc = NoExc
    /\ timestamp = ExportTimestamp
    /\ idx = 0
    /\ status = [t \in Types |-> "Pending"]
    /\ attempts = [t \in Types |-> 0]
    /\ df = Unassigned /\ df_with_metadata = Unassigned
    /\ extractInvoked = FALSE /\ writeLog = << >> /\ store = << >>
    /\ table_name = "" /\ location = "" /\ schema = << >>
    /\ reconciles = 0 /\ catalogLog = << >>
    /\ result = NoResult

\* the script is run (lines 20-43, 230-231)
Init ==
    /\ entry = "main" /\ pc = "loop"
    /\ enable_multi_tenant \in BOOLEAN
    /\ tenant_partition_key = "tenant_id"
    /\ security_labels = None
    /\ Quiet

Next ==
    \/ StartJob \/ Read \/ Tag \/ Write \/ ProcessReturn \/ ProcessExcept
    \/ MainExcept \/ Finish
    \/ CgtClient \/ CgtCreate \/ CgtUpdate \/ CgtExcept

Spec == Init /\ [][Next]_vars

\* main() is one sequential thread whose calls all return or raise
FairSpec == Spec /\ WF_vars(Next)

\* create_glue_table is called directly under every tenant column name, the
\* name of the export timestamp column included
ReconcileKeyNames == TenantKeyNames \cup {"_export_timestamp"}

InitReconcile ==
    /\ entry = "create_glue_table" /\ pc = "harness"
    /\ enable_multi_tenant \in BOOLEAN
    /\ tenant_partition_key \in ReconcileKeyNames
    /\ security_labels = None
    /\ Quiet

NextReconcile ==
    CallReconcile \/ CgtClient \/ CgtCreate \/ CgtUpdate \/ CgtExcept

SpecReconcile == InitReconcile /\ [][NextReconcile]_vars

InitExtract ==
    /\ entry = "extract_tenant_id" /\ pc = "call"
    /\ enable_multi_tenant = TRUE
    /\ tenant_partition_key = "tenant_id"
    /\ security_labels \in PyValues
    /\ Quiet

NextExtract == CallExtract

SpecExtract == InitExtract /\ [][NextExtract]_vars

\* process_resource_type is called directly, once, for one resource type, on
\* any export of JobDatasets and over any of the earlier contents of the
\* output path; pc = "loop" then stands for "returned to the caller" and
\* pc = "main_except" for "raised to the caller"
InitJob ==
    /\ entry = "process_resource_type" /\ pc = "harness"
    /\ enable_multi_tenant \in BOOLEAN
    /\ tenant_partition_key \in TenantKeyNames
    /\ security_labels = None
    /\ Quiet

NextJob ==
    \/ CallJob \/ Read \/ Tag \/ Write \/ ProcessReturn \/ ProcessExcept
    \/ CgtClient \/ CgtCreate \/ CgtUpdate \/ CgtExcept

SpecJob == InitJob /\ [][NextJob]_vars

---------------------------------------------------------------------------
(* Properties of main() and process_resource_type(), under Spec.           *)

AllAttempted == \A t \in Types : attempts[t] >= 1

\* main() has ended: it reported completion, or an exception left it
Terminated == pc \in {"completed", "crashed"}

\* the orchestrator is back at the head of its loop and goes on
BackInLoop ==
    /\ pc \in {"loop", "completed"}
    /\ (pc = "loop" /\ idx < NumTypes) => ENABLED StartJob

\* the write of the current job raised
WriteFailed == writeLog # << >> /\ ~writeLog[Len(writeLog)].ok

CatalogCallsOf(op) == { i \in DOMAIN catalogLog : catalogLog[i].op = op }

\* the catalog requests that carry a table description
TableRequests == CatalogCallsOf("create_table") \cup CatalogCallsOf("update_table")

\* create_table of the current job raised an error other than AlreadyExists
CreateOtherError ==
    \E i \in CatalogCallsOf("create_table") : catalogLog[i].result = "Error"

\* the input of the current job was read and is empty
EmptyInput == df.bound /\ Len(df.rows) = 0

\* C1: whatever types fail, main() never ends before process_resource_type
\* has been invoked for every one of the twelve resource types.
C1_FailureIsolation == Terminated => AllAttempted

C1_Witness ==
    /\ pc = "completed"
    /\ status["Patient"] = "Failed" /\ status["Condition"] = "Failed"
    /\ status["Observation"] = "Done"
    /\ attempts["MedicationStatement"] = 1

\* C2: every run eventually reports completion, and at that point every
\* resource type's job has ended, Done or Failed.
C2_CompletionReported ==
    /\ <>(pc = "completed")
    /\ [](pc = "completed" => \A t \in Types : status[t] \in {"Done", "Failed"})

C2_Witness == pc = "completed" /\ \A t \in Types : status[t] = "Failed"

\* C3: once the write of a job has raised, the exception travels through the
\* handler of process_resource_type to main(), no catalog request is made
\* for the type, its job ends Failed and the loop goes on.
C3_WriteFailureFatalForType ==
    WriteFailed =>
        /\ catalogLog = << >>
        /\ pc \in {"prt_except", "main_except"} \/ BackInLoop
        /\ pc \in {"prt_except", "main_except"} => exc = "write"
        /\ pc \in {"loop", "completed"} => status[CurType] = "Failed" /\ exc = NoExc

C3_Witness ==
    /\ WriteFailed /\ pc = "loop" /\ idx < NumTypes
    /\ status[CurType] = "Failed"

\* C4: an error of create_table other than AlreadyExists is caught by the
\* outer handler of create_glue_table: it never reaches the handlers of
\* process_resource_type or main(), the job ends Done, and the one
\* successful write of the job is all that was sent to the store.
C4_CatalogErrorSwallowed ==
    CreateOtherError =>
        /\ pc = "cgt_except" \/ pc = "prt_return" \/ BackInLoop
        /\ exc = IF pc = "cgt_except" THEN "create" ELSE NoExc
        /\ status[CurType] = IF pc \in {"loop", "completed"} THEN "Done" ELSE "Syncing"
        /\ Len(writeLog) = 1 /\ writeLog[1].ok
        /\ CatalogCallsOf("update_table") = {}

C4_Witness ==
    /\ CreateOtherError /\ pc = "loop"
    /\ status[CurType] = "Done"

\* C8, as claimed: when the dataset read for a type is empty, no write
\* request and no catalog request is made, nothing is raised, the job ends
\* Done and the loop goes on.
C8_EmptyInputIsNoOp ==
    EmptyInput =>
        /\ writeLog = << >> /\ catalogLog = << >>
        /\ exc = NoExc
        /\ BackInLoop
        /\ status[CurType] = "Done"

\* df.count() raised on the empty dataset: the exception is on its way to
\* the handler of main(), or the handler has marked the job Failed
CountRaisedOnEmpty ==
    \/ /\ exc = "count" /\ pc \in {"prt_except", "main_except"}
       /\ status[CurType] = "Reading"
    \/ /\ exc = NoExc /\ BackInLoop
       /\ status[CurType] = "Failed"

\* df.count() returned 0: process_resource_type has returned, the job is Done
CountedEmpty ==
    /\ exc = NoExc /\ BackInLoop
    /\ status[CurType] = "Done"

\* the step in which df.count() returns 0 for the dataset just read
CountReturnsZero ==
    pc = "read" /\ df'.bound /\ Len(df'.rows) = 0 /\ exc' = NoExc

\* C8, amended: when the dataset read for a type is empty no write request
\* and no catalog request is made; if df.count() returns 0 nothing is
\* raised, process_resource_type returns in that very step, the job is Done
\* and the loop goes on; if df.count() raises on the empty dataset the job
\* ends Failed, as for every failed read.
C8_EmptyInputNoRequests ==
    /\ [](EmptyInput =>
            /\ writeLog = << >> /\ catalogLog = << >>
            /\ CountedEmpty \/ CountRaisedOnEmpty)
    /\ [][CountReturnsZero => CountedEmpty']_vars

C8_Witness ==
    /\ EmptyInput /\ pc = "loop" /\ idx < NumTypes
    /\ status[CurType] = "Done"

---------------------------------------------------------------------------
(* Properties of create_glue_table(), under SpecReconcile.                 *)

\* the requests of invocation number rid of create_glue_table
CallsOf(rid, op) ==
    { i \in DOMAIN catalogLog : catalogLog[i].rid = rid /\ catalogLog[i].op = op }

\* invocation number rid has returned
Finished(rid) ==
    /\ rid \in 1..reconciles
    /\ rid = reconciles => pc \notin {"create", "update", "cgt_except"}

\* create_table of invocation rid was answered with res
CreateAnswered(rid, res) ==
    \E i \in CallsOf(rid, "create_table") : catalogLog[i].result = res

\* update_table is called exactly once if create_table reported
\* AlreadyExists, and not at all otherwise; it follows the create_table
UpdateIffAlreadyExists(rid) ==
    /\ Cardinality(CallsOf(rid, "update_table")) =
           IF CreateAnswered(rid, "AlreadyExists") THEN 1 ELSE 0
    /\ \A u \in CallsOf(rid, "update_table") :
           \E c \in CallsOf(rid, "create_table") : c < u

\* C5, as claimed: every invocation of create_glue_table calls create_table
\* once, first, and update_table once if and only if create_table reported
\* AlreadyExists.
C5_EveryReconcileCreates ==
    \A rid \in 1..reconciles :
        Finished(rid) =>
            /\ Cardinality(CallsOf(rid, "create_table")) = 1
            /\ UpdateIffAlreadyExists(rid)

\* C5, amended: an invocation calls create_table once, first, if it obtained
\* the Glue client, and makes no catalog request if it did not; update_table
\* is called once if and only if create_table reported AlreadyExists.
C5_CreateThenUpdateProtocol ==
    \A rid \in 1..reconciles :
        Finished(rid) =>
            /\ Cardinality(CallsOf(rid, "create_table")) =
                   IF \E i \in CallsOf(rid, "client") : catalogLog[i].result = "ok"
                   THEN 1 ELSE 0
            /\ UpdateIffAlreadyExists(rid)

C5_Witness ==
    /\ Finished(1)
    /\ CreateAnswered(1, "AlreadyExists")
    /\ Cardinality(CallsOf(1, "update_table")) = 1
    /\ Finished(2)
    /\ CreateAnswered(2, "Error")

\* the requests of kind op that name table n
RequestsFor(n, op) ==
    { i \in CatalogCallsOf(op) : catalogLog[i].input.Name = n }

\* create_glue_table was called twice for table n; the catalog recorded the
\* table at the first call and reported AlreadyExists at the second
TwiceForSameTable(n) ==
    /\ reconciles = 2 /\ pc = "harness"
    /\ \E i \in CallsOf(1, "create_table") :
           catalogLog[i].input.Name = n /\ catalogLog[i].result = "Created"
    /\ \E i \in CallsOf(2, "create_table") :
           catalogLog[i].input.Name = n /\ catalogLog[i].result = "AlreadyExists"

\* C6, as claimed: the two calls make one create_table request and one
\* update_table request in all.
C6_OneCreateOneUpdate ==
    \A n \in { Lower(t) : t \in Types } :
        TwiceForSameTable(n) =>
            /\ Cardinality(RequestsFor(n, "create_table")) = 1
            /\ Cardinality(RequestsFor(n, "update_table")) = 1

\* C6, amended: the two calls make two create_table requests, one each (the
\* second is the one answered AlreadyExists), and one update_table request,
\* made by the second call.
C6_TwoCreatesOneUpdate ==
    \A n \in { Lower(t) : t \in Types } :
        TwiceForSameTable(n) =>
            /\ Cardinality(RequestsFor(n, "create_table")) = 2
            /\ Cardinality(RequestsFor(n, "update_table")) = 1
            /\ RequestsFor(n, "update_table") = CallsOf(2, "update_table")

C6_Witness ==
    /\ TwiceForSameTable("patient")
    /\ Cardinality(RequestsFor("patient", "update_table")) = 1

\* the keys of a TableInput that describe columns and location, with the name
ColumnsAndLocation ==
    {"Name", "StorageDescriptor.Columns", "StorageDescriptor.Location"}

\* C7, as claimed: an update_table request carries the columns and the
\* location of the table (with its name) and no other key.
C7_UpdateOnlyColumnsLocation ==
    \A i \in CatalogCallsOf("update_table") :
        catalogLog[i].input.keys \subseteq ColumnsAndLocation

\* C7, amended: an update_table request carries the name, the columns, the
\* location and the partition keys of the table, and none of the storage
\* format keys (input and output format, serde, table type, parameters).
C7_UpdateOmitsStorageFormat ==
    \A i \in CatalogCallsOf("update_table") :
        /\ catalogLog[i].input.keys = ColumnsAndLocation \cup {"PartitionKeys"}
        /\ catalogLog[i].input.keys \cap StorageFormatKeys = {}

C7_Witness ==
    \E i \in CatalogCallsOf("update_table") :
        /\ catalogLog[i].result = "ok"
        /\ catalogLog[i].input.Name = "observation"
        /\ pc = "harness"

\* the names of a sequence of fields
Names(fields) == { fields[i].name : i \in 1..Len(fields) }

\* the tenant column and the export timestamp column
PartitionColumns == {tenant_partition_key, "_export_timestamp"}

\* the positions, in the schema given to create_glue_table, of the fields
\* that are not partition columns, and the k-th of them
KeptPositions == { p \in 1..Len(schema) : schema[p].name \notin PartitionColumns }
NthKept(k) ==
    CHOOSE p \in KeptPositions : Cardinality({ q \in KeptPositions : q < p }) = k - 1

\* the table requests of the invocation whose arguments are in table_name,
\* location and schema
CurrentTableRequests ==
    { i \in TableRequests : catalogLog[i].rid = reconciles /\ pc # "cgt" }

\* C16: the columns of every table description, in create_table and in
\* update_table, are the fields of the schema other than the tenant column
\* and the export timestamp column, in the order of the schema; these two
\* names are the partition keys, and no column name is a partition key
\* name, for every schema and every tenant column name.
C16_ColumnsExcludePartitionKeys ==
    \A i \in CurrentTableRequests :
        LET cols  == catalogLog[i].input.Columns
            pkeys == catalogLog[i].input.PartitionKeys
        IN  /\ Len(cols) = Cardinality(KeptPositions)
            /\ \A k \in 1..Len(cols) : cols[k].name = schema[NthKept(k)].name
            /\ Names(pkeys) = PartitionColumns
            /\ Names(cols) \cap Names(pkeys) = {}

\* the tenant column is "id", the first field of the schema
C16_Witness ==
    /\ tenant_partition_key = "id" /\ pc = "harness"
    /\ Len(schema) = 4 /\ schema[1].name = "id"
    /\ \E i \in CurrentTableRequests :
           /\ catalogLog[i].op = "update_table"
           /\ Len(catalogLog[i].input.Columns) = 2
           /\ catalogLog[i].input.Columns[1].name = "meta"
           /\ catalogLog[i].input.Columns[2].name = "_processing_date"

---------------------------------------------------------------------------
(* Properties of extract_tenant_id(), under SpecExtract.                   *)

\* a list whose elements are all label objects (dicts)
IsLabelList(v) ==
    v.kind = "list" /\ \A i \in 1..Len(v.items) : v.items[i].kind = "dict"

\* the positions of the labels of the tenant claim system
TenantPositions(v) ==
    { i \in 1..Len(v.items) : v.items[i].system = TENANT_CLAIM_SYSTEM }

FirstPosition(S) == CHOOSE i \in S : \A j \in S : i <= j

\* the reference: the code of the first label of the tenant claim system,
\* "unknown" if there is none or if it has no code
ReferenceTenant(v) ==
    IF TenantPositions(v) = {} THEN "unknown"
    ELSE IF v.items[FirstPosition(TenantPositions(v))].code = NoKey THEN "unknown"
    ELSE v.items[FirstPosition(TenantPositions(v))].code

\* C9: on every list of label objects extract_tenant_id returns what the
\* reference gives: the code of the first label whose system is the tenant
\* claim system, "unknown" if no label matches or the first match has no code.
C9_ExtractMatchesReference ==
    (pc # "call" /\ IsLabelList(security_labels)) =>
        result = Return(ReferenceTenant(security_labels))

C9_Witness ==
    /\ pc = "returned"
    /\ security_labels =
           PyList(<< Element("dict", NearMissSystem, "G2"),
                     Element("dict", TENANT_CLAIM_SYSTEM, "G1"),
                     Element("dict", TENANT_CLAIM_SYSTEM, "G2") >>)
    /\ result = Return("G1")

\* a value that is not a list (not a sequence), an empty list, or a list
\* that holds an element that is no label object
Malformed(v) ==
    \/ v.kind # "list"
    \/ v.items = << >>
    \/ \E i \in 1..Len(v.items) : v.items[i] = NotALabel

\* C10, as claimed: extract_tenant_id never raises, and returns "unknown"
\* for every argument that is None, empty, not a list, or a list holding
\* elements that are not label-shaped.
C10_MalformedYieldsUnknown ==
    (pc # "call") =>
        /\ result.kind = "return"
        /\ Malformed(security_labels) => result.value = "unknown"

\* the truth test of the argument raised and the exception left
\* extract_tenant_id
C10_Witness ==
    /\ pc = "raised"
    /\ security_labels =
           PyValue("ndarray",
                   << Element("dict", TENANT_CLAIM_SYSTEM, "G1"), NotALabel >>, 0)
    /\ result = Raise("ValueError")

---------------------------------------------------------------------------
(* Properties of process_resource_type(), under SpecJob.                   *)

\* the values that stand for "null" and "absent"
NullOrAbsent == {PyNone, NoKey}

\* row r has a value, neither null nor absent, in column c
HasValue(r, c) == c \in DOMAIN r /\ r[c] \notin NullOrAbsent

\* the job tagged an export that holds a label of the tenant claim system
\* whose code is null
TaggedNullCode ==
    /\ df_with_metadata.bound
    /\ \E i \in 1..Len(df.rows) :
           /\ "meta" \in DOMAIN df.rows[i]
           /\ df.rows[i]["meta"] = SparkArray(<< Struct(TENANT_CLAIM_SYSTEM, PyNone) >>)

\* C11: once the records of a job are tagged there is one tagged record per
\* record read, and each has a tenant identifier and an export timestamp
\* that are neither null nor absent, in single-tenant and in multi-tenant
\* mode and whatever meta.security holds.
C11_TenantAndTimestampNeverNull ==
    df_with_metadata.bound =>
        /\ Len(df_with_metadata.rows) = Len(df.rows)
        /\ \A i \in 1..Len(df_with_metadata.rows) :
               /\ HasValue(df_with_metadata.rows[i], tenant_partition_key)
               /\ HasValue(df_with_metadata.rows[i], "_export_timestamp")

C11_Witness ==
    /\ enable_multi_tenant /\ TaggedNullCode
    /\ pc = "loop" /\ status[CurType] = "Done"
    /\ \A i \in 1..Len(df_with_metadata.rows) :
           df_with_metadata.rows[i][tenant_partition_key] = "unknown"

\* the job tagged an export that holds a label of tenant T1
TaggedTenantLabel ==
    /\ df_with_metadata.bound
    /\ \E i \in 1..Len(df.rows) :
           /\ "meta" \in DOMAIN df.rows[i]
           /\ df.rows[i]["meta"] = SparkArray(<< Struct(TENANT_CLAIM_SYSTEM, "T1") >>)

\* a label of a document as the label object it is: a field that is null
\* in the struct is a key the label does not have
LabelObject(st) ==
    Element("dict",
            IF st.system = PyNone THEN NoKey ELSE st.system,
            IF st.code = PyNone THEN NoKey ELSE st.code)

\* the meta.security of a record as the list of label objects of the
\* document, None if it has no security element
SecurityLabels(x) ==
    IF x.isNull THEN None
    ELSE PyList([i \in 1..Len(x.items) |-> LabelObject(x.items[i])])

\* C12: in single-tenant mode extract_tenant_id is never invoked, at no
\* point of the job, and the tenant value of every tagged record is
\* "default", whatever its meta.security holds; in multi-tenant mode the
\* tenant value of every tagged record is what extract_tenant_id returns
\* for the security labels of that record.
C12_TenantValueByMode ==
    /\ ~enable_multi_tenant => ~extractInvoked
    /\ df_with_metadata.bound =>
           \A i \in 1..Len(df.rows) :
               df_with_metadata.rows[i][tenant_partition_key] =
                   IF enable_multi_tenant
                   THEN ExtractTenantId(SecurityLabels(df.rows[i]["meta"])).value
                   ELSE "default"

\* multi-tenant mode: a record labelled with tenant T1 was written and
\* stored with the tenant value "unknown"
C12_Witness ==
    /\ enable_multi_tenant /\ TaggedTenantLabel
    /\ pc = "loop" /\ status[CurType] = "Done"
    /\ extractInvoked
    /\ Len(df.rows) = 1
    /\ ExtractTenantId(SecurityLabels(df.rows[1]["meta"])) = Return("T1")
    /\ df_with_metadata.rows[1][tenant_partition_key] = "unknown"

\* s is a prefix of t
IsPrefix(s, t) == Len(s) <= Len(t) /\ SubSeq(t, 1, Len(s)) = s

\* the rows stored under the output path stay where they are, unchanged, in
\* the partition that is written as in the others; a write adds its rows
\* behind them, all of its rows if it succeeds
AppendOnlyStep ==
    /\ IsPrefix(store, store')
    /\ writeLog' # writeLog =>
           LET req == writeLog'[Len(writeLog')]
           IN  /\ \E n \in 0..Len(req.rows) :
                      store' = store \o SubSeq(req.rows, 1, n)
               /\ req.ok => store' = store \o req.rows

\* C14: a job never removes or changes a row that is stored under its
\* output path: every step leaves the stored rows in place and a write adds
\* its rows to them, also when the same tenant and export timestamp are
\* written again (the records are then stored a second time, next to the
\* rows of the earlier invocation).
C14_WritesAppendOnly == [][AppendOnlyStep]_vars

\* rows r and s hold the same record of the same tenant and export
\* timestamp, stored by two invocations
SameRecord(r, s) ==
    /\ DOMAIN r = DOMAIN s
    /\ \A c \in DOMAIN r \ {"_processing_date"} : r[c] = s[c]
    /\ r["_processing_date"] # s["_processing_date"]

\* the sample export is written a second time in single-tenant mode with
\* the same export timestamp: the store holds the rows of the earlier
\* invocation, unchanged, and behind them the same records again
C14_Witness ==
    /\ ~enable_multi_tenant
    /\ Len(writeLog) = 1 /\ writeLog[1].ok
    /\ store = EarlierRows(timestamp) \o writeLog[1].rows
    /\ Len(writeLog[1].rows) = Len(EarlierRows(timestamp))
    /\ \A i \in 1..Len(writeLog[1].rows) :
           SameRecord(store[i], store[i + Len(writeLog[1].rows)])
    /\ pc = "loop" /\ status[CurType] = "Done"

\* C17: the write is partitioned by the tenant column first and the export
\* timestamp column second, and every table description sent to the
\* catalog, by create_table and by update_table, lists the same two
\* partition keys in the same order, both of type string.
C17_SamePartitionPairEverywhere ==
    /\ \A i \in DOMAIN writeLog :
           writeLog[i].partitionBy = << tenant_partition_key, "_export_timestamp" >>
    /\ \A i \in TableRequests :
           catalogLog[i].input.PartitionKeys =
               << [name |-> tenant_partition_key, dataType |-> "string"],
                  [name |-> "_export_timestamp", dataType |-> "string"] >>

C17_Witness ==
    /\ pc = "loop" /\ status[CurType] = "Done"
    /\ Len(writeLog) = 1 /\ writeLog[1].ok
    /\ CatalogCallsOf("create_table") # {}
    /\ \E i \in CatalogCallsOf("update_table") : catalogLog[i].result = "ok"

---------------------------------------------------------------------------
(* Order of the stages of a job and of the jobs of a run, under Spec and   *)
(* FairSpec.                                                               *)

\* the steps from one stage of a job to the next
StageSteps ==
    { << "Pending", "Reading" >>,
      << "Reading", "Tagging" >>, << "Reading", "Done" >>, << "Reading", "Failed" >>,
      << "Tagging", "Writing" >>, << "Tagging", "Failed" >>,
      << "Writing", "Syncing" >>, << "Writing", "Failed" >>,
      << "Syncing", "Done" >> }

\* every change of the stage of a job is one of StageSteps
StageStep ==
    \A t \in Types :
        status'[t] # status[t] => << status[t], status'[t] >> \in StageSteps

\* no job is running: main() is between two iterations, or has ended
BetweenJobs == pc \in {"loop", "completed"}

\* a write request is made only once tagging is complete, and it sends the
\* tagged records; a catalog request is made only after the write of the
\* same job has succeeded; a job that is over is Done or Failed
StagesInOrder ==
    /\ writeLog # << >> =>
           /\ df_with_metadata.bound
           /\ writeLog[1].rows = df_with_metadata.rows
           /\ status[CurType] \in {"Writing", "Syncing", "Done", "Failed"}
    /\ catalogLog # << >> =>
           /\ Len(writeLog) = 1 /\ writeLog[1].ok
           /\ status[CurType] \in {"Syncing", "Done"}
    /\ (BetweenJobs /\ idx >= 1) => status[CurType] \in {"Done", "Failed"}

\* C13: the stages of a job follow one another only in the order Reading,
\* Tagging, Writing, Syncing, each step going to the next stage or to the
\* end of the job; the write starts only once tagging is complete; a
\* catalog request is made only after the write of the same job succeeded;
\* and every job that starts ends, Done or Failed.
C13_StrictStageOrder ==
    /\ []StagesInOrder
    /\ [][StageStep]_vars
    /\ (~BetweenJobs) ~> BetweenJobs

C13_Witness ==
    /\ idx = 2 /\ pc = "loop"
    /\ status[resource_types[1]] = "Failed"
    /\ status[CurType] = "Done"
    /\ Len(writeLog) = 1 /\ writeLog[1].ok
    /\ CatalogCallsOf("update_table") # {}

\* the twelve resource types have twelve distinct lower-cased table names
\* and twelve distinct output paths (the names are fixed: they are compared
\* once, before the first job)
NamesPairwiseDistinct ==
    /\ Cardinality(Types) = 12
    /\ \A s, t \in Types :
           s # t => Lower(s) # Lower(t) /\ OutputPath(s) # OutputPath(t)

\* C15: the twelve resource types have twelve pairwise distinct lower-cased
\* table names and twelve pairwise distinct output paths, no type is given
\* more than one job, and every write request and every catalog request of
\* a job names the output path and the table of the type of that job, never
\* those of another type.
C15_OneJobPerTable ==
    /\ idx = 0 => NamesPairwiseDistinct
    /\ \A t \in Types : attempts[t] <= 1
    /\ \A i \in DOMAIN writeLog :
           /\ writeLog[i].path = OutputPath(CurType)
           /\ \A t \in Types \ {CurType} : writeLog[i].path # OutputPath(t)
    /\ \A i \in TableRequests :
           /\ catalogLog[i].input.Name = Lower(CurType)
           /\ catalogLog[i].input.Location = OutputPath(CurType)
           /\ \A t \in Types \ {CurType} :
                  /\ catalogLog[i].input.Name # Lower(t)
                  /\ catalogLog[i].input.Location # OutputPath(t)

C15_Witness ==
    /\ idx = 2 /\ pc = "loop"
    /\ attempts[resource_types[1]] = 1 /\ attempts[resource_types[2]] = 1
    /\ writeLog # << >> /\ writeLog[1].path = "s3://curated/observation/"
    /\ \E i \in CatalogCallsOf("update_table") :
           catalogLog[i].input.Name = "observation"

\* the order in which the resource types are declared to be attempted
DeclaredOrder ==
    << "Patient", "Observation", "Condition", "MedicationRequest", "Procedure",
       "DiagnosticReport", "Encounter", "AllergyIntolerance", "Immunization",
       "CarePlan", "Goal", "MedicationStatement" >>

\* the jobs of the types before the current one are over, the types after
\* it have not been attempted, and only the current one can be running
JobsInDeclaredOrder ==
    \A i \in 1..Len(DeclaredOrder) :
        /\ i < idx => /\ status[DeclaredOrder[i]] \in {"Done", "Failed"}
                      /\ attempts[DeclaredOrder[i]] = 1
        /\ i = idx => /\ status[DeclaredOrder[i]] # "Pending"
                      /\ attempts[DeclaredOrder[i]] = 1
        /\ i > idx => /\ status[DeclaredOrder[i]] = "Pending"
                      /\ attempts[DeclaredOrder[i]] = 0

\* a job starts for the type that follows the current one in the declared
\* order, and only when the job of the current one is over
StartsNextInOrder ==
    idx' # idx =>
        /\ idx' = idx + 1
        /\ idx >= 1 => status[DeclaredOrder[idx]] \in {"Done", "Failed"}
        /\ status[DeclaredOrder[idx']] = "Pending"
        /\ status'[DeclaredOrder[idx']] = "Reading"

\* C18: main() attempts the resource types in the declared order, one at a
\* time: the job of a type starts only when the job of the type before it
\* has ended Done or Failed, and no type is skipped or started early.
C18_JobsOneAtATimeInOrder ==
    []JobsInDeclaredOrder /\ [][StartsNextInOrder]_vars

C18_Witness ==
    /\ idx = 3 /\ pc = "write"
    /\ status["Patient"] = "Failed" /\ status["Observation"] = "Done"
    /\ status["Condition"] = "Writing"
    /\ status["MedicationRequest"] = "Pending"

\* no type is given a second job, and a job makes at most one write
\* request, one create_table request and one update_table request; when
\* main() has ended every type has been given exactly one job
AttemptedOnce ==
    /\ \A t \in Types : attempts[t] <= 1
    /\ Len(writeLog) <= 1
    /\ Cardinality(CatalogCallsOf("create_table")) <= 1
    /\ Cardinality(CatalogCallsOf("update_table")) <= 1
    /\ pc = "completed" => \A t \in Types : attempts[t] = 1

\* a job that is Failed stays Failed and is not invoked again
FailedIsFinal ==
    \A t \in Types :
        status[t] = "Failed" =>
            status'[t] = "Failed" /\ attempts'[t] = attempts[t]

\* C19: nothing is retried. Each resource type is given exactly one job in
\* a run; a job makes at most one write request, one create_table request
\* and one update_table request; a job that has ended Failed is not
\* attempted again and never leaves Failed.
C19_NoRetry ==
    []AttemptedOnce /\ [][FailedIsFinal]_vars

C19_Witness ==
    /\ idx = 2 /\ pc = "update"
    /\ status["Patient"] = "Failed" /\ attempts["Patient"] = 1
    /\ status["Observation"] = "Syncing" /\ attempts["Observation"] = 1
    /\ Cardinality(CatalogCallsOf("create_table")) = 1

\* the write of the current job has succeeded
WriteSucceeded == writeLog # << >> /\ writeLog[Len(writeLog)].ok

\* the failures that the catalog can cause: no Glue client, create_table
\* raising, update_table raising
CatalogFailures == {"client", "create", "update"}

\* C20: once the write of a job has succeeded the job cannot end Failed:
\* an exception in flight is one of the catalog failures - obtaining the
\* client, create_table, the fallback update_table - and is inside
\* create_glue_table, where the outer handler ends it; it reaches neither
\* the handler of process_resource_type nor that of main(), and the job
\* ends Done.
C20_CatalogNeverFailsJob ==
    WriteSucceeded =>
        /\ status[CurType] \in {"Syncing", "Done"}
        /\ pc \notin {"prt_except", "main_except"}
        /\ exc # NoExc => pc = "cgt_except" /\ exc \in CatalogFailures
        /\ BetweenJobs => status[CurType] = "Done"

C20_Witness ==
    /\ WriteSucceeded /\ pc = "loop"
    /\ \E i \in CatalogCallsOf("update_table") : catalogLog[i].result = "error"
    /\ status[CurType] = "Done" /\ exc = NoExc

===========================================================================
